---------------------------- MODULE Spec2Model ----------------------------
(***************************************************************************)
(* Model of tiny_transformer_components.ipynb: the NumPy building blocks   *)
(* of a decoder-only transformer (embedding lookup, causal attention,      *)
(* layer norm, dropout, feed-forward, transformer block, output layer,     *)
(* cross-entropy loss, temperature / top-k / top-p sampling).              *)
(*                                                                         *)
(* Numbers.  A float64 is modelled as a fixed-point integer: the integer n *)
(* with -FMax <= n <= FMax stands for the real n / S.  Results are rounded *)
(* to the grid, a result beyond FMax overflows to an infinity and a result *)
(* below half a grid step underflows to 0, as IEEE arithmetic does at its  *)
(* own (much larger) range and (much finer) resolution.  The three IEEE    *)
(* special values are the integers just outside the finite range, so that  *)
(* the integer order is the order a NumPy sort uses:                       *)
(*      NInf < every finite value < PInf < NaN.                            *)
(* Token ids and positions are 0-based in the program; sequences here are  *)
(* 1-based, so that id i lives at index i + 1.                             *)
(***************************************************************************)
EXTENDS Integers, Sequences, FiniteSets, TLC

\* Resolution of the number model: S grid steps per unit.
S == 1000
\* Largest finite magnitude of the number model (in grid steps).
FMax == 40000

PInf == FMax + 1
NInf == -(FMax + 1)
NaN  == FMax + 2

IsNaN(a) == a = NaN
IsInf(a) == a = PInf \/ a = NInf
IsFin(a) == a >= -FMax /\ a <= FMax

\* An exact integer result brought into the float range (overflow to +-inf).
Norm(n) == IF n > FMax THEN PInf ELSE IF n < -FMax THEN NInf ELSE n

\* n / d rounded to the nearest integer (halves away from zero), d # 0.
RoundDiv(n, d) ==
    LET an == IF n < 0 THEN -n ELSE n
        ad == IF d < 0 THEN -d ELSE d
        q  == (2 * an + ad) \div (2 * ad)
    IN  IF (n < 0) = (d < 0) THEN q ELSE -q

Sign(a) == IF a > 0 THEN 1 ELSE IF a < 0 THEN -1 ELSE 0

FNeg(a) == IF IsNaN(a) THEN NaN ELSE -a

FAdd(a, b) ==
    IF IsNaN(a) \/ IsNaN(b) THEN NaN
    ELSE IF IsInf(a) /\ IsInf(b) THEN (IF a = b THEN a ELSE NaN)
    ELSE IF IsInf(a) THEN a
    ELSE IF IsInf(b) THEN b
    ELSE Norm(a + b)

FSub(a, b) == FAdd(a, FNeg(b))

FMul(a, b) ==
    IF IsNaN(a) \/ IsNaN(b) THEN NaN
    ELSE IF IsInf(a) \/ IsInf(b)
         THEN (IF a = 0 \/ b = 0 THEN NaN
               ELSE IF Sign(a) = Sign(b) THEN PInf ELSE NInf)
    ELSE Norm(RoundDiv(a * b, S))

\* NumPy true division: a zero divisor gives inf or nan (a warning), no exception.
FDiv(a, b) ==
    IF IsNaN(a) \/ IsNaN(b) THEN NaN
    ELSE IF IsInf(a) /\ IsInf(b) THEN NaN
    ELSE IF IsInf(a) THEN (IF Sign(a) * (IF b < 0 THEN -1 ELSE 1) > 0 THEN PInf ELSE NInf)
    ELSE IF IsInf(b) THEN 0
    ELSE IF b = 0 THEN (IF a = 0 THEN NaN ELSE IF a > 0 THEN PInf ELSE NInf)
    ELSE Norm(RoundDiv(a * S, b))

\* e^(a/S) on the grid, for a finite a: whole units by repeated multiplication
\* with e or 1/e, a fraction by halving down to an eighth of a unit, where the
\* Taylor polynomial of degree 3 is exact to the grid.
RECURSIVE ExpFix(_)
ExpFix(a) ==
    IF a <= -S THEN RoundDiv(ExpFix(a + S) * 368, 1000)
    ELSE IF a >= S
         THEN LET r == ExpFix(a - S)
              IN  IF r > FMax THEN PInf ELSE Norm(RoundDiv(r * 2718, 1000))
    ELSE IF 8 * a > S \/ 8 * a < -S
         THEN RoundDiv(ExpFix(a \div 2) * ExpFix(a - (a \div 2)), S)
    ELSE S + a + RoundDiv(a * a, 2 * S) + RoundDiv(a * a * a, 6 * S * S)

\* np.exp
FExp(a) ==
    IF IsNaN(a) THEN NaN
    ELSE IF a = PInf THEN PInf
    ELSE IF a = NInf THEN 0
    ELSE IF a < -(10 * S) THEN 0
    ELSE ExpFix(a)

\* Largest r in lo..hi with r * r <= n (lo * lo <= n assumed).
RECURSIVE ISqrt(_, _, _)
ISqrt(n, lo, hi) ==
    IF lo >= hi THEN lo
    ELSE LET mid == (lo + hi + 1) \div 2
         IN  IF mid * mid <= n THEN ISqrt(n, mid, hi) ELSE ISqrt(n, lo, mid - 1)

\* np.sqrt
FSqrt(a) ==
    IF IsNaN(a) \/ a < 0 THEN NaN
    ELSE IF a = PInf THEN PInf
    ELSE LET r == ISqrt(a * S, 0, 7000)
         IN  IF (r + 1) * (r + 1) - a * S <= a * S - r * r THEN r + 1 ELSE r

\* Largest a in lo..hi with FExp(a) <= p (FExp(lo) <= p assumed).
RECURSIVE LogSearch(_, _, _)
LogSearch(p, lo, hi) ==
    IF lo >= hi THEN lo
    ELSE LET mid == (lo + hi + 1) \div 2
         IN  IF ExpFix(mid) <= p THEN LogSearch(p, mid, hi) ELSE LogSearch(p, lo, mid - 1)

\* np.log: log(0) is -inf and the log of a negative number nan (warnings).
FLog(a) ==
    IF IsNaN(a) \/ a < 0 THEN NaN
    ELSE IF a = PInf THEN PInf
    ELSE IF a = 0 THEN NInf
    ELSE IF a >= S THEN LogSearch(a, 0, 11 * S)
    ELSE LogSearch(a, -(10 * S), 0)

(***************************************************************************)
(* Vectors and matrices: a vector is a sequence of numbers, a matrix a     *)
(* sequence of rows of equal length.                                       *)
(***************************************************************************)
RECURSIVE SumUpTo(_, _)
\* v[1] + ... + v[n], added left to right (np.sum, np.cumsum).
SumUpTo(v, n) == IF n = 0 THEN 0 ELSE FAdd(SumUpTo(v, n - 1), v[n])

SumSeq(v) == SumUpTo(v, Len(v))

\* np.cumsum
CumSum(v) == [i \in 1..Len(v) |-> SumUpTo(v, i)]

\* np.max along a row: a nan in the row makes the maximum nan.
MaxOf(v) == CHOOSE m \in {v[i] : i \in 1..Len(v)} : \A i \in 1..Len(v) : v[i] <= m

\* np.mean of a row: the sum divided by the number of elements.
MeanOf(v) == FDiv(SumSeq(v), Len(v) * S)

Dot(a, b) == SumSeq([i \in 1..Len(a) |-> FMul(a[i], b[i])])

Col(B, j) == [i \in 1..Len(B) |-> B[i][j]]

\* A @ B
MatMul(A, B) ==
    [i \in 1..Len(A) |-> [j \in 1..Len(B[1]) |-> Dot(A[i], Col(B, j))]]

\* B.T
Transpose(B) == [j \in 1..Len(B[1]) |-> Col(B, j)]

\* A + B, elementwise.
MatAdd(A, B) ==
    [i \in 1..Len(A) |-> [j \in 1..Len(A[i]) |-> FAdd(A[i][j], B[i][j])]]

\* A + b with the vector b broadcast over the rows.
AddBias(A, b) ==
    [i \in 1..Len(A) |-> [j \in 1..Len(A[i]) |-> FAdd(A[i][j], b[j])]]

\* c * A for a grid number c.
Scaled(c, A) ==
    [i \in 1..Len(A) |-> [j \in 1..Len(A[i]) |-> FMul(c, A[i][j])]]

\* The outcome of a call: a returned value or a raised exception.
Ok(v)    == [kind |-> "ok", val |-> v]
Raise(e) == [kind |-> "raise", val |-> e]

\* NumPy's integer indexing into an axis of length n: the 1-based position of
\* index i, where a negative i counts from the end, or 0 when i is out of
\* bounds (an IndexError).
NpIndex(n, i) ==
    IF i >= 0 /\ i < n THEN i + 1
    ELSE IF i < 0 /\ i >= -n THEN n + i + 1
    ELSE 0

(***************************************************************************)
(* 1. Token embedding                                                      *)
(***************************************************************************)
vocab_size    == 5
embedding_dim == 4

\* np.random.seed(42); np.random.randn(vocab_size, embedding_dim), in
\* thousandths brought to the grid.
embedding_matrix ==
    LET g(r) == [j \in 1..Len(r) |-> RoundDiv(r[j] * S, 1000)]
    IN  << g(<<  497,  -138,   648,  1523>>),
           g(<< -234,  -234,  1579,   767>>),
           g(<< -469,   543,  -463,  -466>>),
           g(<<  242, -1913, -1725,  -562>>),
           g(<<-1013,   314,  -908, -1412>>) >>

\* embedding_matrix[tokens]
tokens_to_embeddings(tokens) ==
    IF \E t \in 1..Len(tokens) : NpIndex(Len(embedding_matrix), tokens[t]) = 0
    THEN Raise("IndexError")
    ELSE Ok([t \in 1..Len(tokens) |->
                embedding_matrix[NpIndex(Len(embedding_matrix), tokens[t])]])

\* np.argmax of a row, as a 0-based id: the first position holding the maximum.
ArgMax(v) ==
    (CHOOSE i \in 1..Len(v) :
        /\ v[i] = MaxOf(v)
        /\ \A j \in 1..(i - 1) : v[j] # MaxOf(v)) - 1

embeddings_to_tokens(embeddings) ==
    LET logits == MatMul(embeddings, Transpose(embedding_matrix))
    IN  [t \in 1..Len(logits) |-> ArgMax(logits[t])]

(***************************************************************************)
(* 2. Scaled dot-product attention with causal mask                        *)
(***************************************************************************)
\* softmax of one row (axis=-1).
softmax(x) ==
    LET exp == [i \in 1..Len(x) |-> FExp(FSub(x[i], MaxOf(x)))]
        sum == SumSeq(exp)
    IN  [i \in 1..Len(x) |-> FDiv(exp[i], sum)]

\* softmax of a matrix: row by row.
softmax_rows(x) == [i \in 1..Len(x) |-> softmax(x[i])]

\* The mask with np.triu in place of np.tril: a position attends to itself and
\* to the later positions.
causal_mask_triu(size) ==
    [i \in 1..size |-> [j \in 1..size |-> IF j >= i THEN 1 ELSE 0]]

\* np.tril(np.ones((size, size)))
causal_mask(size) ==
    [i \in 1..size |-> [j \in 1..size |-> IF j <= i THEN 1 ELSE 0]]

\* Q @ K.T / np.sqrt(d_k)
attention_scores(Q, K) ==
    LET d_k == Len(Q[1])
        raw == MatMul(Q, Transpose(K))
    IN  [i \in 1..Len(raw) |->
            [j \in 1..Len(raw[i]) |-> FDiv(raw[i][j], FSqrt(d_k * S))]]

\* The masking with 0 in place of -np.inf: a masked position keeps the weight
\* exp(0 - max) instead of none.
masked_scores_zero(Q, K) ==
    LET scores == attention_scores(Q, K)
        mask   == causal_mask(Len(Q))
    IN  [i \in 1..Len(scores) |->
            [j \in 1..Len(scores[i]) |->
                IF mask[i][j] = 1 THEN scores[i][j] ELSE 0]]

\* np.where(mask == 1, scores, -np.inf)
masked_scores(Q, K) ==
    LET scores == attention_scores(Q, K)
        mask   == causal_mask(Len(Q))
    IN  [i \in 1..Len(scores) |->
            [j \in 1..Len(scores[i]) |->
                IF mask[i][j] = 1 THEN scores[i][j] ELSE NInf]]

\* weights = softmax(scores)
attention_weights(Q, K) == softmax_rows(masked_scores(Q, K))

scaled_dot_product_attention(Q, K, V) == MatMul(attention_weights(Q, K), V)

(***************************************************************************)
(* 3. Layer normalization                                                  *)
(***************************************************************************)
\* eps=1e-6, which is below the grid: one grid step, the smallest positive number.
Eps == 1

\* np.std of a row: the population standard deviation.
StdOf(v) ==
    LET mean == MeanOf(v)
        dev2 == [i \in 1..Len(v) |-> FMul(FSub(v[i], mean), FSub(v[i], mean))]
    IN  FSqrt(MeanOf(dev2))

\* The row divided by its spread without its mean taken off first.
layer_norm_row_uncentred(v, eps) ==
    [i \in 1..Len(v) |-> FDiv(v[i], FAdd(StdOf(v), eps))]

layer_norm_row(v, eps) ==
    LET mean == MeanOf(v)
        std  == StdOf(v)
    IN  [i \in 1..Len(v) |-> FDiv(FSub(v[i], mean), FAdd(std, eps))]

layer_norm(x) == [t \in 1..Len(x) |-> layer_norm_row(x[t], Eps)]

(***************************************************************************)
(* 5. Feed-forward network                                                 *)
(***************************************************************************)
\* np.maximum(0, x): a nan stays nan.
relu(x) ==
    [i \in 1..Len(x) |->
        [j \in 1..Len(x[i]) |->
            IF IsNaN(x[i][j]) THEN NaN ELSE IF x[i][j] > 0 THEN x[i][j] ELSE 0]]

feed_forward(x, W1, b1, W2, b2) ==
    AddBias(MatMul(relu(AddBias(MatMul(x, W1), b1)), W2), b2)

(***************************************************************************)
(* 7. Output layer, 8. cross-entropy loss                                  *)
(***************************************************************************)
output_layer(x, W_out, b_out) == AddBias(MatMul(x, W_out), b_out)

\* probs[np.arange(len(targets)), targets]: the two index arrays must have the
\* rows' length and every index must be in bounds.
cross_entropy_loss(logits, targets) ==
    LET probs == softmax_rows(logits)
        pos(t) == NpIndex(Len(probs[t]), targets[t])
    IN  IF Len(targets) > Len(logits)
           \/ \E t \in 1..Len(targets) : pos(t) = 0
        THEN Raise("IndexError")
        ELSE Ok(MeanOf([t \in 1..Len(targets) |-> FNeg(FLog(probs[t][pos(t)]))]))

(***************************************************************************)
(* 4. Dropout                                                              *)
(***************************************************************************)
\* (np.random.rand(*x.shape) > p).astype(np.float32), for the drawn matrix.
dropout_mask(draws, p) ==
    [i \in 1..Len(draws) |->
        [j \in 1..Len(draws[i]) |-> IF draws[i][j] > p THEN S ELSE 0]]

\* x * mask / (1 - p), where draws is what np.random.rand returned.
dropout(x, p, draws) ==
    LET mask == dropout_mask(draws, p)
    IN  [i \in 1..Len(x) |->
            [j \in 1..Len(x[i]) |->
                FDiv(FMul(x[i][j], mask[i][j]), FSub(S, p))]]

(***************************************************************************)
(* 9. Text generation strategies                                           *)
(***************************************************************************)
IdOrders(n) ==
    {q \in [1..n -> 0..(n - 1)] : \A i, j \in 1..n : i # j => q[i] # q[j]}

\* np.argsort(v): the 0-based ids in ascending order of value, nan last.  The
\* order among equal values is the sort's own and is not specified: every
\* order that sorts is a possible result.
ArgSorts(v) ==
    {q \in IdOrders(Len(v)) :
        \A i \in 1..(Len(v) - 1) : v[q[i] + 1] <= v[q[i + 1] + 1]}

\* a[::-1]
Reversed(a) == [i \in 1..Len(a) |-> a[Len(a) + 1 - i]]

\* a[-k:] with Python's slice rules: -0 is 0, so k = 0 keeps everything.
LastK(a, k) ==
    LET n     == Len(a)
        start == IF k > 0 THEN (IF n - k > 0 THEN n - k ELSE 0)
                 ELSE (IF -k < n THEN -k ELSE n)
    IN  SubSeq(a, start + 1, n)

\* a[:m]
FirstM(a, m) == SubSeq(a, 1, IF m < Len(a) THEN m ELSE Len(a))

\* logits[idx] for a sequence of 0-based ids.
Take(logits, idx) == [i \in 1..Len(idx) |-> logits[idx[i] + 1]]

\* np.searchsorted(a, key) (side='left') by NumPy's binary search over the
\* 0-based range lo..hi: the number of leading elements below key.
RECURSIVE SearchSorted(_, _, _, _)
SearchSorted(a, key, lo, hi) ==
    IF lo >= hi THEN lo
    ELSE LET mid == lo + ((hi - lo) \div 2)
         IN  IF a[mid + 1] < key THEN SearchSorted(a, key, mid + 1, hi)
             ELSE SearchSorted(a, key, lo, mid)

\* How far from 1 the sum of the probabilities given to np.random.choice may
\* be: NumPy allows for the rounding of the sum.
ChoiceAtol(p) == Len(p)

\* np.random.choice(a, p=p) for the uniform draw u in [0, 1): p is checked
\* first (before anything is drawn), then the cumulative distribution is
\* normalised by its last entry and searched (side='right') for u.
Choice(a, p, u) ==
    LET sum == SumSeq(p)
        cdf == CumSum(p)
        n   == Len(p)
    IN  IF \E i \in 1..n : IsNaN(p[i]) \/ p[i] < 0
        THEN Raise("ValueError")
        ELSE IF sum - S > ChoiceAtol(p) \/ S - sum > ChoiceAtol(p)
        THEN Raise("ValueError")
        ELSE Ok(a[CHOOSE i \in 1..n :
                    /\ FDiv(cdf[i], cdf[n]) > u
                    /\ \A j \in 1..(i - 1) : ~(FDiv(cdf[j], cdf[n]) > u)])

temperature_probs(logits, T) ==
    softmax([i \in 1..Len(logits) |-> FDiv(logits[i], T)])

temperature_sampling(logits, T, u) ==
    Choice([i \in 1..Len(logits) |-> i - 1], temperature_probs(logits, T), u)

\* The slice [:k] in place of [-k:]: the k lowest logits.
top_k_idx_lowest(order, k) == FirstM(order, k)

\* idx = np.argsort(logits)[-k:], for the order the sort produced.
top_k_idx(order, k) == LastK(order, k)

top_k_sampling(logits, k, order, u) ==
    LET idx   == top_k_idx(order, k)
        probs == softmax(Take(logits, idx))
    IN  Choice(idx, probs, u)

\* cutoff = np.searchsorted(np.cumsum(softmax(logits[sorted_idx])), p)
top_p_cutoff(logits, p, order) ==
    LET sorted_idx   == Reversed(order)
        sorted_probs == softmax(Take(logits, sorted_idx))
        cum_probs    == CumSum(sorted_probs)
    IN  SearchSorted(cum_probs, p, 0, Len(cum_probs))

\* The slice [:cutoff] in place of [:cutoff+1]: the id that crosses the
\* threshold is left out.
top_p_selected_exclusive(logits, p, order) ==
    FirstM(Reversed(order), top_p_cutoff(logits, p, order))

\* selected = sorted_idx[:cutoff+1]
top_p_selected(logits, p, order) ==
    FirstM(Reversed(order), top_p_cutoff(logits, p, order) + 1)

top_p_sampling(logits, p, order, u) ==
    LET selected == top_p_selected(logits, p, order)
        probs    == softmax(Take(logits, selected))
    IN  Choice(selected, probs, u)

(***************************************************************************)
(* 6. Transformer block: the statements of its body, one step each.        *)
(***************************************************************************)
\* Q, K, V = x @ W_q, x @ W_k, x @ W_v
block_project(l, a) ==
    [l EXCEPT !.Q = MatMul(l.x, a.W_q),
              !.K = MatMul(l.x, a.W_k),
              !.V = MatMul(l.x, a.W_v)]

\* attn = scaled_dot_product_attention(Q, K, V)
block_attend(l, a) ==
    [l EXCEPT !.attn = scaled_dot_product_attention(l.Q, l.K, l.V)]

\* x = layer_norm(x + attn)
block_norm1(l, a) == [l EXCEPT !.x = layer_norm(MatAdd(l.x, l.attn))]

\* The feed-forward step reading the block's input x in place of the
\* normalized x.
block_ffn_raw(l, a) ==
    [l EXCEPT !.ffn = feed_forward(a.x, a.W1, a.b1, a.W2, a.b2)]

\* ffn = feed_forward(x, W1, b1, W2, b2)
block_ffn(l, a) ==
    [l EXCEPT !.ffn = feed_forward(l.x, a.W1, a.b1, a.W2, a.b2)]

\* x = layer_norm(x + ffn)
block_norm2(l, a) == [l EXCEPT !.x = layer_norm(MatAdd(l.x, l.ffn))]

(***************************************************************************)
(* The inputs the calls are tried on.                                      *)
(***************************************************************************)
\* Longest token sequence.
MaxT == 2
\* Longest logit vector given to a decoding strategy.
MaxN == 3
\* Draws the generator hands out before the model stops calling it.
MaxDraws == 2
\* Resolution of the generator: its draws are the multiples of 1/RngSteps in [0, 1).
RngSteps == 4

\* The width of the hidden layer: W1 = np.random.randn(embedding_dim, 8).
hidden_dim == 8

SeqsOver(vals, maxlen) == UNION {[1..n -> vals] : n \in 1..maxlen}

\* Token ids of the notebook's input, input_tokens = np.array([1, 3, 4]).
InputIds == {1, 3, 4}
TokenSeqs == SeqsOver(InputIds, MaxT)

\* Ids given to the lookup: the vocabulary and the ids around it.
LookupIds == (-(vocab_size + 1))..vocab_size

\* Sequence representations: what the lookup returns for the token sequences.
Embedded(tokens) == tokens_to_embeddings(tokens).val

\* A Q that is an embedded sequence, as it is or large enough for its dot
\* products to overflow.
QScales == {S, 16 * S}

\* Rows of equal elements and a row of two elements, for layer_norm.
NormRows ==
    {<< <<0, 0, 0, 0>> >>, << <<S \div 2, S \div 2, S \div 2>> >>,
     << <<0, S>>, <<-S, -S>> >>}

\* Caller-supplied weights: a rows x cols matrix and a vector of n elements
\* with entries between -3/4 and 3/4, one for every seed s.
Weights(rows, cols, s) ==
    [i \in 1..rows |->
        [j \in 1..cols |-> (((3 * i + 5 * j + s) % 7) - 3) * (S \div 4)]]
Bias(n, s) == [j \in 1..n |-> (((2 * j + s) % 5) - 2) * (S \div 4)]
Seeds == {1, 2}

BlockArgs(x, s) ==
    [x   |-> x,
     W_q |-> Weights(embedding_dim, embedding_dim, s),
     W_k |-> Weights(embedding_dim, embedding_dim, s + 1),
     W_v |-> Weights(embedding_dim, embedding_dim, s + 2),
     W1  |-> Weights(embedding_dim, hidden_dim, s + 3),
     b1  |-> Bias(hidden_dim, s),
     W2  |-> Weights(hidden_dim, embedding_dim, s + 4),
     b2  |-> Bias(embedding_dim, s + 1)]

\* Logits: -inf (a masked id), a logit whose probability underflows, and two
\* ordinary ones, so that ties happen.
LogitVals == {NInf, -(8 * S), 0, S}
LogitVecs == SeqsOver(LogitVals, MaxN)

\* Targets of the loss: ids of the vocabulary and the first id beyond it.
TargetIds == {2, 4, vocab_size}

\* What the generator can draw: numbers in [0, 1), 0 included.
DrawVals == {(k * S) \div RngSteps : k \in 0..(RngSteps - 1)}

\* Inputs of dropout and its p (0, the default 0.1, 1/2, 1 and 2).
DropXs == {<< <<S>> >>, << <<-(2 * S), 3 * S>> >>, << <<S \div 2>>, <<0>> >>}
DropPs == {0, S \div 10, S \div 2, S, 2 * S}

Temperatures == {0, S \div 2, S, 2 * S}
TopPs == {S \div 2, (9 * S) \div 10, S}

(***************************************************************************)
(* State.  One call at a time (the notebook is single-threaded): op is the *)
(* function being called ("idle" between calls), args its arguments, pc    *)
(* where the call is, result what it returned or raised, locals the local  *)
(* variables of a transformer_block call, and rng the state of the         *)
(* process-wide generator np.random: the number of draws taken from it.    *)
(***************************************************************************)
VARIABLES op, args, pc, result, locals, rng
vars == <<op, args, pc, result, locals, rng>>

None == [none |-> TRUE]

Init ==
    /\ op = "idle"
    /\ args = None
    /\ pc = "idle"
    /\ result = None
    /\ locals = None
    /\ rng = 0

\* A call, made while no other is running (op = "idle"), that runs to its end
\* in one step, with the local variables l when it ends, and draws n numbers.
Call(name, a, l, r, n) ==
    /\ op' = name
    /\ args' = a
    /\ pc' = "done"
    /\ locals' = l
    /\ result' = r
    /\ rng' = rng + n

TokensToEmbeddings ==
    /\ op = "idle"
    /\ \E tokens \in SeqsOver(LookupIds, MaxT) :
           Call("tokens_to_embeddings", [tokens |-> tokens], None,
                tokens_to_embeddings(tokens), 0)

EmbeddingsToTokens ==
    /\ op = "idle"
    /\ \E tokens \in TokenSeqs :
           Call("embeddings_to_tokens", [embeddings |-> Embedded(tokens)], None,
                Ok(embeddings_to_tokens(Embedded(tokens))), 0)

Softmax ==
    /\ op = "idle"
    /\ \E x \in LogitVecs : Call("softmax", [x |-> x], None, Ok(softmax(x)), 0)

Attention ==
    /\ op = "idle"
    /\ \E tq, tk \in TokenSeqs, c \in QScales :
           /\ Len(tq) = Len(tk)
           /\ LET Q == Scaled(c, Embedded(tq))
                  K == Embedded(tk)
                  V == Embedded(tq)
              IN  Call("scaled_dot_product_attention", [Q |-> Q, K |-> K, V |-> V],
                       [scores  |-> masked_scores(Q, K),
                        weights |-> attention_weights(Q, K)],
                       Ok(scaled_dot_product_attention(Q, K, V)), 0)

LayerNorm ==
    /\ op = "idle"
    /\ \E x \in {Embedded(tokens) : tokens \in TokenSeqs} \cup NormRows :
           Call("layer_norm", [x |-> x], None, Ok(layer_norm(x)), 0)

\* np.random.rand(*x.shape) draws one number for every element of x.
Dropout ==
    /\ op = "idle"
    /\ \E x \in DropXs, p \in DropPs :
           \E draws \in [1..Len(x) -> [1..Len(x[1]) -> DrawVals]] :
               /\ rng + Len(x) * Len(x[1]) <= MaxDraws
               /\ Call("dropout", [x |-> x, p |-> p, draws |-> draws],
                       [mask |-> dropout_mask(draws, p)],
                       Ok(dropout(x, p, draws)), Len(x) * Len(x[1]))

\* feed_forward with a dropout in it, which draws from the generator (counted
\* as one draw).
FeedForwardWithDropout ==
    /\ op = "idle"
    /\ rng + 1 <= MaxDraws
    /\ \E tokens \in TokenSeqs, s \in Seeds :
           LET a == BlockArgs(Embedded(tokens), s)
           IN  Call("feed_forward",
                    [x |-> a.x, W1 |-> a.W1, b1 |-> a.b1, W2 |-> a.W2, b2 |-> a.b2], None,
                    Ok(feed_forward(a.x, a.W1, a.b1, a.W2, a.b2)), 1)

FeedForward ==
    /\ op = "idle"
    /\ \E tokens \in TokenSeqs, s \in Seeds :
           LET a == BlockArgs(Embedded(tokens), s)
           IN  Call("feed_forward",
                    [x |-> a.x, W1 |-> a.W1, b1 |-> a.b1, W2 |-> a.W2, b2 |-> a.b2], None,
                    Ok(feed_forward(a.x, a.W1, a.b1, a.W2, a.b2)), 0)

OutputLayer ==
    /\ op = "idle"
    /\ \E tokens \in TokenSeqs, s \in Seeds :
           LET x     == Embedded(tokens)
               W_out == Weights(embedding_dim, vocab_size, s)
               b_out == Bias(vocab_size, s)
           IN  Call("output_layer", [x |-> x, W_out |-> W_out, b_out |-> b_out], None,
                    Ok(output_layer(x, W_out, b_out)), 0)

CrossEntropyLoss ==
    /\ op = "idle"
    /\ \E tokens \in TokenSeqs :
           \E targets \in [1..Len(tokens) -> TargetIds] :
               LET logits == output_layer(Embedded(tokens),
                                          Weights(embedding_dim, vocab_size, 1),
                                          Bias(vocab_size, 1))
               IN  Call("cross_entropy_loss", [logits |-> logits, targets |-> targets], None,
                        cross_entropy_loss(logits, targets), 0)

\* A decoding strategy draws one number, unless np.random.choice rejects the
\* probabilities, which it checks before it draws.
Sample(name, a, l, r) ==
    /\ rng + 1 <= MaxDraws
    /\ Call(name, a, l, r, IF r.kind = "ok" THEN 1 ELSE 0)

TemperatureSampling ==
    /\ op = "idle"
    /\ \E logits \in LogitVecs, T \in Temperatures, u \in DrawVals :
           Sample("temperature_sampling", [logits |-> logits, T |-> T],
                  [probs |-> temperature_probs(logits, T)],
                  temperature_sampling(logits, T, u))

TopKSampling ==
    /\ op = "idle"
    /\ \E logits \in LogitVecs :
           \E order \in ArgSorts(logits), k \in 0..MaxN, u \in DrawVals :
               Sample("top_k_sampling", [logits |-> logits, k |-> k, order |-> order],
                      [idx |-> top_k_idx(order, k)],
                      top_k_sampling(logits, k, order, u))

TopPSampling ==
    /\ op = "idle"
    /\ \E logits \in LogitVecs :
           \E order \in ArgSorts(logits), p \in TopPs, u \in DrawVals :
               Sample("top_p_sampling", [logits |-> logits, p |-> p, order |-> order],
                      [sorted_idx |-> Reversed(order),
                       cum_probs  |-> CumSum(softmax(Take(logits, Reversed(order)))),
                       selected   |-> top_p_selected(logits, p, order)],
                      top_p_sampling(logits, p, order, u))

\* transformer_block(x, W_q, W_k, W_v, W1, b1, W2, b2) is entered.
BlockCall ==
    /\ op = "idle"
    /\ \E tokens \in TokenSeqs, s \in Seeds :
           /\ op' = "transformer_block"
           /\ args' = BlockArgs(Embedded(tokens), s)
           /\ pc' = "project"
           /\ locals' = [x |-> Embedded(tokens), Q |-> <<>>, K |-> <<>>, V |-> <<>>,
                         attn |-> <<>>, ffn |-> <<>>]
           /\ UNCHANGED <<result, rng>>

\* One statement of the block's body: from pc = at to pc = to.
BlockStep(at, to, l) ==
    /\ op = "transformer_block"
    /\ pc = at
    /\ pc' = to
    /\ locals' = l
    /\ UNCHANGED <<op, args, result, rng>>

BlockProject     == BlockStep("project", "attend", block_project(locals, args))
BlockAttend      == BlockStep("attend", "norm1", block_attend(locals, args))
BlockNorm1       == BlockStep("norm1", "ffn", block_norm1(locals, args))
BlockFeedForward == BlockStep("ffn", "norm2", block_ffn(locals, args))
BlockNorm2       == BlockStep("norm2", "return", block_norm2(locals, args))

\* return x
BlockReturn ==
    /\ op = "transformer_block"
    /\ pc = "return"
    /\ pc' = "done"
    /\ result' = Ok(locals.x)
    /\ UNCHANGED <<op, args, locals, rng>>

\* The call is over and the caller goes on; the generator keeps its state.
Return ==
    /\ pc = "done"
    /\ op' = "idle"
    /\ args' = None
    /\ pc' = "idle"
    /\ result' = None
    /\ locals' = None
    /\ UNCHANGED rng

Next ==
    \/ TokensToEmbeddings
    \/ EmbeddingsToTokens
    \/ Softmax
    \/ Attention
    \/ LayerNorm
    \/ Dropout
    \/ FeedForward
    \/ OutputLayer
    \/ CrossEntropyLoss
    \/ TemperatureSampling
    \/ TopKSampling
    \/ TopPSampling
    \/ BlockCall
    \/ BlockProject
    \/ BlockAttend
    \/ BlockNorm1
    \/ BlockFeedForward
    \/ BlockNorm2
    \/ BlockReturn
    \/ Return

Spec == Init /\ [][Next]_vars

(***************************************************************************)
(* Properties.                                                             *)
(***************************************************************************)
AttentionDone == op = "scaled_dot_product_attention" /\ pc = "done"

\* The scores row i of the weights is computed from (positions 0..i, here
\* 1..i) are all finite: no dot product overflowed.
RowScoresFinite(i) == \A k \in 1..i : IsFin(locals.scores[i][k])

\* C1 as claimed: after scaled_dot_product_attention, for all positions i < j
\* the weight position i gives to position j is exactly 0, whatever the finite
\* Q and K.
C1_FutureWeightZero ==
    AttentionDone =>
        \A i, j \in 1..Len(args.Q) : i < j => locals.weights[i][j] = 0

\* C1 as amended: for all positions i < j the weight position i gives to
\* position j is exactly 0 whenever the scaled scores of position i with the
\* positions up to i are finite (a dot product of finite Q and K that
\* overflows makes the whole row nan).
C1_FutureWeightZeroIfFinite ==
    AttentionDone =>
        \A i, j \in 1..Len(args.Q) :
            (i < j /\ RowScoresFinite(i)) => locals.weights[i][j] = 0

\* A call on two positions or more whose scores are finite, where position 1
\* (0-based) spreads its weight over both earlier positions.
C1_Witness ==
    /\ AttentionDone
    /\ Len(args.Q) >= 2
    /\ \A i \in 1..Len(args.Q) : RowScoresFinite(i)
    /\ locals.weights[1][2] = 0
    /\ locals.weights[2][1] > 0
    /\ locals.weights[2][2] > 0

\* C9 as claimed: row 0 of the output of scaled_dot_product_attention equals
\* row 0 of V exactly, for every finite Q, K, V.
C9_FirstRowIsV ==
    AttentionDone => result.val[1] = args.V[1]

\* C9 as amended: row 0 of the output equals row 0 of V exactly whenever the
\* scaled score of position 0 with itself is finite (Q[0].K[0] did not
\* overflow).
C9_FirstRowIsVIfFinite ==
    (AttentionDone /\ RowScoresFinite(1)) => result.val[1] = args.V[1]

\* A call on two positions or more with V different from K and a finite first
\* score, whose first output row is V's and whose second is not.
C9_Witness ==
    /\ AttentionDone
    /\ Len(args.Q) >= 2
    /\ RowScoresFinite(1)
    /\ args.V # args.K
    /\ args.V[1] # args.V[2]
    /\ result.val[1] = args.V[1]
    /\ result.val[2] # args.V[2]

TopKDone == op = "top_k_sampling" /\ pc = "done"

Ids(logits) == 0..(Len(logits) - 1)

\* T is a set of k ids whose logits are all at least the logit of every id
\* outside it.
IsTopK(T, logits, k) ==
    /\ T \subseteq Ids(logits)
    /\ Cardinality(T) = k
    /\ \A i \in T : \A j \in Ids(logits) \ T : logits[i + 1] >= logits[j + 1]

\* C2: for 1 <= k <= N, an id top_k_sampling returns belongs to a set of
\* exactly k ids whose logits are at least the logit of every id outside it.
C2_TopKWithinTopK ==
    (TopKDone /\ args.k >= 1 /\ args.k <= Len(args.logits) /\ result.kind = "ok") =>
        \E T \in SUBSET Ids(args.logits) :
            IsTopK(T, args.logits, args.k) /\ result.val \in T

\* top_k_sampling with 1 < k < N returned an id that is not the highest, while
\* a lower logit was left out.
C2_Witness ==
    /\ TopKDone
    /\ args.k > 1
    /\ args.k < Len(args.logits)
    /\ result.kind = "ok"
    /\ \E i, j \in Ids(args.logits) :
        /\ args.logits[i + 1] > args.logits[result.val + 1]
        /\ args.logits[j + 1] < args.logits[result.val + 1]
        /\ IsFin(args.logits[j + 1])

TopPDone == op = "top_p_sampling" /\ pc = "done"

\* The cumulative softmax probability of the first m ids in descending order
\* of logit, the softmax being over the whole vocabulary.
CumProb(m) == SumUpTo(softmax(Take(args.logits, locals.sorted_idx)), m)

\* The length of the smallest prefix of the sorted ids whose cumulative
\* probability is >= p, the id that crosses the threshold included; the whole
\* vocabulary when no prefix gets there.
MinPrefixLen ==
    LET N       == Len(args.logits)
        reaches == {m \in 1..N : CumProb(m) >= args.p}
    IN  IF reaches = {} THEN N
        ELSE CHOOSE m \in reaches : \A m2 \in reaches : m <= m2

MinPrefix == {locals.sorted_idx[m] : m \in 1..MinPrefixLen}

\* C3 as claimed: an id top_p_sampling returns is in the smallest prefix of
\* the ids sorted by descending logit whose cumulative probability is >= p,
\* and with p = 1 that prefix is the whole vocabulary.
C3_TopPWithinPrefix ==
    (TopPDone /\ result.kind = "ok") =>
        /\ result.val \in MinPrefix
        /\ args.p = S => MinPrefix = Ids(args.logits)

\* C3 as amended: an id top_p_sampling returns is in that smallest prefix (the
\* whole vocabulary when the computed cumulative probability never reaches p);
\* with p = 1 the prefix is the whole vocabulary unless the computed
\* cumulative probability reaches 1 on a shorter prefix, the probabilities
\* after it having rounded or underflowed to nothing.
C3_TopPWithinComputedPrefix ==
    (TopPDone /\ result.kind = "ok") =>
        /\ result.val \in MinPrefix
        /\ {locals.selected[m] : m \in 1..Len(locals.selected)} = MinPrefix
        /\ (args.p = S /\ \A m \in 1..(Len(args.logits) - 1) : CumProb(m) < S)
               => MinPrefix = Ids(args.logits)

\* top_p_sampling with p < 1 over three ids returned the second id of a
\* prefix of two: the id that crosses the threshold.
C3_Witness ==
    /\ TopPDone
    /\ result.kind = "ok"
    /\ args.p < S
    /\ Len(args.logits) = 3
    /\ MinPrefixLen = 2
    /\ CumProb(1) < args.p
    /\ result.val = locals.sorted_idx[2]

DropoutDone == op = "dropout" /\ pc = "done"

\* C4: dropout with p = 0 is the identity, whatever the generator draws (a
\* draw of exactly 0 included): dropout(x, 0) returns x.
C4_DropoutZeroIsIdentity ==
    (DropoutDone /\ args.p = 0) => (result.kind = "ok" /\ result.val = args.x)

LookupDone == op = "tokens_to_embeddings" /\ pc = "done"

ValidId(id) == id >= 0 /\ id < vocab_size

\* C5: tokens_to_embeddings fails with an index error whenever an id is >= N
\* or < 0, and otherwise returns the rows of the embedding matrix the ids name.
C5_LookupRejectsInvalidIds ==
    LookupDone =>
        IF \E t \in 1..Len(args.tokens) : ~ValidId(args.tokens[t])
        THEN result = Raise("IndexError")
        ELSE /\ result.kind = "ok"
             /\ \A t \in 1..Len(args.tokens) :
                    result.val[t] = embedding_matrix[args.tokens[t] + 1]

\* C6: an invalid parameter is a failure and never a result: dropout with
\* p >= 1 fails and temperature_sampling with T = 0 fails.
C6_InvalidParameterFails ==
    /\ (DropoutDone /\ args.p >= S) => result.kind = "raise"
    /\ (op = "temperature_sampling" /\ pc = "done" /\ args.T = 0)
           => result.kind = "raise"

Stochastic ==
    {"dropout", "temperature_sampling", "top_k_sampling", "top_p_sampling"}

Pure ==
    {"tokens_to_embeddings", "embeddings_to_tokens", "softmax",
     "scaled_dot_product_attention", "layer_norm", "feed_forward",
     "transformer_block", "output_layer", "cross_entropy_loss"}

\* What a returned call of a pure function gives for its arguments and the
\* embedding matrix alone.
PureResult ==
    CASE op = "tokens_to_embeddings" -> tokens_to_embeddings(args.tokens)
      [] op = "embeddings_to_tokens" -> Ok(embeddings_to_tokens(args.embeddings))
      [] op = "softmax" -> Ok(softmax(args.x))
      [] op = "scaled_dot_product_attention" ->
            Ok(scaled_dot_product_attention(args.Q, args.K, args.V))
      [] op = "layer_norm" -> Ok(layer_norm(args.x))
      [] op = "feed_forward" ->
            Ok(feed_forward(args.x, args.W1, args.b1, args.W2, args.b2))
      [] op = "output_layer" -> Ok(output_layer(args.x, args.W_out, args.b_out))
      [] op = "cross_entropy_loss" -> cross_entropy_loss(args.logits, args.targets)
      [] OTHER -> result

\* C7: over any sequence of calls the generator's state changes only in a
\* call of dropout, temperature_sampling, top_k_sampling or top_p_sampling;
\* every step of a call of the nine other functions leaves it as it was, and
\* what such a call returns is a function of its arguments and the embedding
\* matrix.
C7_GeneratorFrame ==
    /\ [][/\ rng' # rng => op' \in Stochastic
          /\ (op' \in Pure \/ op \in Pure) => rng' = rng]_vars
    /\ [](op \in Pure /\ pc = "done" => result = PureResult)

\* A pure call returned after the generator had been drawn from, with the
\* state the generator had before the call.
C7_Witness ==
    /\ rng > 0
    /\ op \in Pure
    /\ pc = "done"
    /\ result.kind = "ok"

BlockDone == op = "transformer_block" /\ pc = "done"

\* The value of an expression, computed once.
ValueOf(e) == CHOOSE v \in {e} : TRUE

\* attention(x W_q, x W_k, x W_v) for the block's input x.
BlockAttn ==
    LET Q == ValueOf(MatMul(args.x, args.W_q))
        K == ValueOf(MatMul(args.x, args.W_k))
        V == ValueOf(MatMul(args.x, args.W_v))
    IN  ValueOf(scaled_dot_product_attention(Q, K, V))

\* y = layer_norm(x + attention(x W_q, x W_k, x W_v)).
BlockY == ValueOf(layer_norm(ValueOf(MatAdd(args.x, BlockAttn))))

BlockFFNOf(y) == ValueOf(feed_forward(y, args.W1, args.b1, args.W2, args.b2))

IsShape(m, rows, cols) ==
    Len(m) = rows /\ \A i \in 1..rows : Len(m[i]) = cols

\* C8: transformer_block returns layer_norm(y + feed_forward(y)) where
\* y = layer_norm(x + attention(x W_q, x W_k, x W_v)): the feed-forward step
\* reads the normalized y, the second residual adds y, and the output of a
\* T x D input is T x D.
C8_BlockIsPostNorm ==
    /\ (op = "transformer_block" /\ pc = "norm2") =>
           \A y \in {BlockY} :
               locals.x = y /\ locals.ffn = BlockFFNOf(y)
    /\ BlockDone =>
           \A y \in {BlockY} : \A f \in {BlockFFNOf(y)} :
               /\ result = Ok(layer_norm(ValueOf(MatAdd(y, f))))
               /\ IsShape(result.val, Len(args.x), Len(args.x[1]))

\* A block call on two positions returned a finite result, with y different
\* from x and the feed-forward of y different from that of x.
C8_Witness ==
    /\ BlockDone
    /\ Len(args.x) = 2
    /\ \A i \in 1..2 : \A j \in 1..embedding_dim : IsFin(result.val[i][j])
    /\ \A y \in {BlockY} : \A f \in {BlockFFNOf(y)} :
           /\ y # args.x
           /\ f # BlockFFNOf(args.x)
           /\ result.val # layer_norm(ValueOf(MatAdd(args.x, f)))

LayerNormDone == op = "layer_norm" /\ pc = "done"

\* "Approximately": within a hundredth.
Tol == S \div 100

Near(a, b) == IsFin(a) /\ a - b <= Tol /\ b - a <= Tol

\* A row whose spread is far above eps.
SpreadRow(v) == StdOf(v) >= S \div 4

ConstRow(v) == \A i \in 1..Len(v) : v[i] = v[1]

=============================================================================
